---- MODULE Spec2Model ----
(***************************************************************************)
(* Model of the CSV importer's parser (parsePreview and processFile).      *)
(* The byte source (nodeStream) and the tokenizer (Papa.parse) are the     *)
(* environment: they call the handlers the parser registers.  A file is a  *)
(* sequence of raw rows, a raw row a sequence of items, an item either a   *)
(* string (a sequence of character codes) or a value of another type.      *)
(***************************************************************************)
EXTENDS Integers, Sequences, FiniteSets, TLC

\* ---------------------------------------------------------------- constants
BOM_CODE == 65279
PREVIEW_ROW_COUNT == 5
SOURCES_PAGE_SIZE == 5

\* ------------------------------------------------------------------- bounds
MaxRows == 3          \* rows of a file handed to processFile
MaxPreviewRows == 6   \* rows of a file handed to parsePreview
MaxChunks == 3        \* chunk events of one processFile run
MaxColumns == 12      \* columns handed to ColumnDragSourceArea

\* ------------------------------------------------------------- input pools
StringItem(chars) == [isString |-> TRUE, chars |-> chars]

OtherItem == [isString |-> FALSE, chars |-> <<>>]

\* raw rows the tokenizer may produce
RowPool ==
  { <<>>,
    << StringItem(<<BOM_CODE, BOM_CODE, 97>>), OtherItem >> }

PreviewRowPool ==
  { <<>>,
    << StringItem(<<BOM_CODE, BOM_CODE, 97>>), OtherItem >> }

SeqsUpTo(S, n) == UNION { [1..k -> S] : k \in 0..n }

Assigned(i) == [assigned |-> TRUE, index |-> i]

Unassigned == [assigned |-> FALSE, index |-> 0]

\* FieldAssignmentMap values handed to processFile
AssignmentPool ==
  { [name |-> Assigned(0), email |-> Assigned(2)],
    [name |-> Unassigned, email |-> Assigned(1)],
    [name |-> Assigned(0), email |-> Assigned(0)] }

ConsumerBehaviours == {"void", "promise", "throw"}

RowErrorPool == { <<>>, <<"e1">>, <<"e2", "e1">> }

FirstChunkTexts == {"", "raw"}

\* --------------------------------------------------------- pure functions
Min(a, b) == IF a < b THEN a ELSE b

\* (row as unknown[]).map((item) => typeof item === 'string' ? item : '')
ToStringRow(row) ==
  [i \in 1..Len(row) |-> IF row[i].isString THEN row[i].chars ELSE <<>>]

cleanLeadingBOM(row) ==
  IF Len(row) > 0 /\ Len(row[1]) > 0 /\ row[1][1] = BOM_CODE
    THEN [row EXCEPT ![1] = Tail(row[1])]
    ELSE row

\* the value of a Record key: a string, or undefined
DefinedValue(chars) == [defined |-> TRUE, chars |-> chars]

UndefinedValue == [defined |-> FALSE, chars |-> <<>>]

CellAt_EmptyString(stringRow, columnIndex) ==
  IF columnIndex + 1 <= Len(stringRow)
    THEN DefinedValue(stringRow[columnIndex + 1])
    ELSE DefinedValue(<<>>)

\* stringRow[columnIndex]: undefined when the index is past the row's end
CellAt(stringRow, columnIndex) ==
  IF columnIndex + 1 <= Len(stringRow)
    THEN DefinedValue(stringRow[columnIndex + 1])
    ELSE UndefinedValue

BuildRecord_AllFields(stringRow, fa) ==
  [f \in DOMAIN fa |-> CellAt(stringRow, fa[f].index)]

\* the Record built for one row: its keys are the fields that were assigned
BuildRecord(stringRow, fa) ==
  LET keys == { f \in DOMAIN fa : fa[f].assigned }
  IN  [f \in keys |-> CellAt(stringRow, fa[f].index)]

NormalRow_AlwaysClean(row, bom) == cleanLeadingBOM(ToStringRow(row))

\* the row as the chunk handler sees it after coercion and the BOM skip
NormalRow(row, bom) ==
  IF bom THEN cleanLeadingBOM(ToStringRow(row)) ELSE ToStringRow(row)

\* data.map(...) of the chunk handler; only the first mapped row can still
\* see skipBOM set
MapRows(data, bom, fa) ==
  [i \in 1..Len(data) |-> BuildRecord(NormalRow(data[i], bom /\ i = 1), fa)]

\* data.slice(1)
DropFirst(s) == IF Len(s) = 0 THEN s ELSE Tail(s)

\* const skipped = skipLine && data.length > 0
Skipped_NoLengthTest(sl, data) == sl

Skipped(sl, data) == sl /\ Len(data) > 0

\* if (skipped) { skipLine = false }
NextSkipLine(sl, skipped) == IF skipped THEN FALSE ELSE sl

\* info = { startIndex: processedCount }, taken before processedCount advances
InfoStartIndex_AfterAdvance(count, rowCount) == count + rowCount

InfoStartIndex(count, rowCount) == count

RECURSIVE SumLen(_, _)
\* total number of records of the first n batches
SumLen(batches, n) ==
  IF n = 0 THEN 0 ELSE SumLen(batches, n - 1) + Len(batches[n].records)

RECURSIVE SumSeq(_, _)
\* sum of the first n entries of a sequence of numbers
SumSeq(s, n) == IF n = 0 THEN 0 ELSE SumSeq(s, n - 1) + s[n]

RECURSIVE FlatSrc(_, _)
\* file row numbers of the records of the first n batches, concatenated
FlatSrc(batches, n) ==
  IF n = 0 THEN <<>> ELSE FlatSrc(batches, n - 1) \o batches[n].src


\* ------------------------------------------------------------------- state
VARIABLES
  run,              \* which operation runs: "process" or "preview"
  tokErrors,        \* row-level errors the tokenizer reported with its chunk
  file,             \* the rows of the input file
  hasHeaders,       \* ParserInput.hasHeaders
  fieldAssignments, \* ParserInput.fieldAssignments
  pc,               \* "init", "running" (tokenizer started), "threw"
  skipLine,         \* processFile
  skipBOM,          \* processFile
  processedCount,   \* processFile
  nodeStreamPaused, \* byte source paused
  parserPaused,     \* tokenizer paused
  parserAborted,    \* tokenizer aborted
  tokPos,           \* rows the tokenizer has emitted so far
  tokCompleted,     \* the complete callback has fired
  tokErrored,       \* the error callback has fired
  ops,              \* per chunk handled by processFile: its whenConsumed
  outcome,          \* the promise returned by processFile
  delivered,        \* consumer invocations, in order
  progress,         \* reportProgress invocations, in order
  resumeCount,      \* number of times the pipeline was resumed
  firstChunk,       \* parsePreview
  firstWarning,     \* parsePreview
  rowAccumulator,   \* parsePreview
  previewResult,    \* the promise returned by parsePreview
  abortCompletes,   \* tokenizer behaviour: abort() calls complete
  columns,          \* ColumnDragSourceArea: the columns prop
  page              \* ColumnDragSourceArea: useState page

vars == << run, tokErrors, file, hasHeaders, fieldAssignments, pc, skipLine, skipBOM,
           processedCount, nodeStreamPaused, parserPaused, parserAborted,
           tokPos, tokCompleted, tokErrored, ops, outcome, delivered,
           progress, resumeCount, firstChunk, firstWarning, rowAccumulator,
           previewResult, abortCompletes, columns, page >>

previewVars == << firstChunk, firstWarning, rowAccumulator, previewResult,
                  abortCompletes >>

processVars == << skipLine, skipBOM, processedCount, ops, outcome, delivered,
                  progress, resumeCount, hasHeaders, fieldAssignments >>

Pending == [state |-> "pending", error |-> "none"]

NullChunk == "<null>"

NoWarning == "<undefined>"

PreviewPending == [kind |-> "pending"]

\* ------------------------------------------------------------ processFile
InitProcess ==
  /\ run = "process"
  /\ tokErrors = <<>>
  /\ file \in SeqsUpTo(RowPool, MaxRows)
  /\ hasHeaders \in BOOLEAN
  /\ fieldAssignments \in AssignmentPool
  /\ pc = "init"
  /\ skipLine = FALSE
  /\ skipBOM = FALSE
  /\ processedCount = 0
  /\ nodeStreamPaused = FALSE
  /\ parserPaused = FALSE
  /\ parserAborted = FALSE
  /\ tokPos = 0
  /\ tokCompleted = FALSE
  /\ tokErrored = FALSE
  /\ ops = <<>>
  /\ outcome = Pending
  /\ delivered = <<>>
  /\ progress = <<>>
  /\ resumeCount = 0
  /\ firstChunk = NullChunk
  /\ firstWarning = NoWarning
  /\ rowAccumulator = <<>>
  /\ previewResult = PreviewPending
  /\ abortCompletes = FALSE
  /\ columns = <<>>
  /\ page = 0

Settle_Overwrite(current, state, error) == [state |-> state, error |-> error]

\* resolve() / reject() of the promise executor: only the first call counts
Settle(current, state, error) ==
  IF current.state = "pending" THEN [state |-> state, error |-> error]
  ELSE current

WhenConsumedSettled_IgnoreResult(op) ==
  op.consumer = "threw" \/ op.timer = "fired"

\* whenConsumed of one chunk has settled (fulfilled or rejected): resolve(result)
\* makes it follow the promise the consumer returned
WhenConsumedSettled(op) ==
  \/ op.consumer = "threw"
  \/ /\ op.timer = "fired"
     /\ op.consumer \in {"notCalled", "void", "fulfilled", "rejected"}

\* a then-handler of some whenConsumed is queued as a microtask: it runs
\* before any other event
ResumeDue == \E i \in 1..Len(ops) : WhenConsumedSettled(ops[i]) /\ ~ops[i].resumed

\* the promise executor up to Papa.parse: opening the source may throw
ProcessOpen(throws) ==
  /\ run = "process"
  /\ pc = "init"
  /\ IF throws
       THEN /\ pc' = "threw"
            /\ outcome' = Settle(outcome, "failed", "sourceError")
            /\ UNCHANGED << skipLine, skipBOM >>
       ELSE /\ pc' = "running"
            /\ skipLine' = hasHeaders
            /\ skipBOM' = ~hasHeaders
            /\ UNCHANGED outcome
  /\ processedCount' = 0
  /\ UNCHANGED << columns, page, run, tokErrors, file, hasHeaders, fieldAssignments, nodeStreamPaused,
                  parserPaused, parserAborted, tokPos, tokCompleted,
                  tokErrored, ops, delivered, progress, resumeCount >>
  /\ UNCHANGED previewVars

\* error: (error) => reject(error)
ProcessError ==
  /\ run = "process"
  /\ pc = "running"
  /\ ~tokErrored
  /\ ~ResumeDue
  /\ tokErrored' = TRUE
  /\ outcome' = Settle(outcome, "failed", "tokenizerError")
  /\ UNCHANGED << columns, page, run, tokErrors, file, hasHeaders, fieldAssignments, pc, skipLine, skipBOM,
                  processedCount, nodeStreamPaused, parserPaused,
                  parserAborted, tokPos, tokCompleted, ops, delivered,
                  progress, resumeCount >>
  /\ UNCHANGED previewVars

CallbackInvoked_Always(rowCount) == TRUE

\* rows.length ? callback(rows, info) : undefined
CallbackInvoked(rowCount) == rowCount > 0

ProgressSeenAtCallback_Before(before, after) == before

\* the number of reportProgress calls made when callback is invoked:
\* reportProgress(rows.length) precedes the whenConsumed executor
ProgressSeenAtCallback(before, after) == after

NewOp_NoTimerWhenEmpty(rowCount, behaviour) ==
  IF ~CallbackInvoked(rowCount)
    THEN [consumer |-> "notCalled", timer |-> "none", resumed |-> FALSE,
          resumes |-> 0]
  ELSE IF behaviour = "throw"
    THEN [consumer |-> "threw", timer |-> "none", resumed |-> FALSE,
          resumes |-> 0]
  ELSE IF behaviour = "promise"
    THEN [consumer |-> "pending", timer |-> "scheduled", resumed |-> FALSE,
          resumes |-> 0]
  ELSE [consumer |-> "void", timer |-> "scheduled", resumed |-> FALSE,
        resumes |-> 0]

\* the whenConsumed a chunk starts with: a throwing callback rejects it at
\* once, otherwise the timer that resolves it with the result is scheduled
NewOp(rowCount, behaviour) ==
  IF ~CallbackInvoked(rowCount)
    THEN [consumer |-> "notCalled", timer |-> "scheduled", resumed |-> FALSE,
          resumes |-> 0]
  ELSE IF behaviour = "throw"
    THEN [consumer |-> "threw", timer |-> "none", resumed |-> FALSE,
          resumes |-> 0]
  ELSE IF behaviour = "promise"
    THEN [consumer |-> "pending", timer |-> "scheduled", resumed |-> FALSE,
          resumes |-> 0]
  ELSE [consumer |-> "void", timer |-> "scheduled", resumed |-> FALSE,
        resumes |-> 0]

\* the then-handler of whenConsumed that runs
HandlerOf(op) ==
  IF op.consumer \in {"threw", "rejected"} THEN "onRejected" ELSE "onFulfilled"

HandlerResumes_OnlyFulfilled(handler) == handler = "onFulfilled"

\* both then-handlers call nodeStream.resume() and parser.resume()
HandlerResumes(handler) == TRUE

nodeStreamPause_Noop(paused) == paused

\* nodeStream.pause()
nodeStreamPause(paused) == TRUE

\* chunk: ({ data }, parser) => { ... }; the tokenizer emits the next n rows
ProcessChunk(n, behaviour) ==
  /\ run = "process"
  /\ pc = "running"
  /\ ~tokCompleted
  /\ ~nodeStreamPaused /\ ~parserPaused
  /\ ~ResumeDue
  /\ Len(ops) < MaxChunks
  /\ n <= Len(file) - tokPos
  /\ Len(ops) + 1 = MaxChunks => n = Len(file) - tokPos
  /\ LET data == SubSeq(file, tokPos + 1, tokPos + n)
         skipped == Skipped(skipLine, data)
         kept == IF skipped THEN DropFirst(data) ELSE data
         rows == MapRows(kept, skipBOM, fieldAssignments)
         first == tokPos + (Len(data) - Len(kept))
         info == [startIndex |-> InfoStartIndex(processedCount, Len(kept))]
     IN  /\ nodeStreamPaused' = nodeStreamPause(nodeStreamPaused)
         /\ parserPaused' = TRUE
         /\ skipBOM' = (skipBOM /\ Len(kept) = 0)
         /\ skipLine' = NextSkipLine(skipLine, skipped)
         /\ processedCount' = processedCount + Len(rows)
         /\ progress' = Append(progress, Len(rows))
         /\ delivered' =
              IF CallbackInvoked(Len(rows))
                THEN Append(delivered,
                            [records |-> rows,
                             startIndex |-> info.startIndex,
                             src |-> [i \in 1..Len(rows) |-> first + i],
                             chunk |-> Len(ops) + 1,
                             progressSeen |->
                               ProgressSeenAtCallback(Len(progress),
                                                      Len(progress) + 1)])
                ELSE delivered
         /\ ops' = Append(ops, NewOp(Len(rows), behaviour)
                                @@ [dataLen |-> Len(data)])
  /\ tokPos' = tokPos + n
  /\ UNCHANGED << columns, page, run, tokErrors, file, hasHeaders, fieldAssignments, pc, parserAborted,
                  tokCompleted, tokErrored, outcome, resumeCount >>
  /\ UNCHANGED previewVars

\* the promise returned by the consumer settles
ConsumerSettles(i, result) ==
  /\ run = "process"
  /\ i \in 1..Len(ops)
  /\ ops[i].consumer = "pending"
  /\ ~ResumeDue
  /\ ops' = [ops EXCEPT ![i].consumer = result]
  /\ UNCHANGED << columns, page, run, tokErrors, file, hasHeaders, fieldAssignments, pc, skipLine, skipBOM,
                  processedCount, nodeStreamPaused, parserPaused,
                  parserAborted, tokPos, tokCompleted, tokErrored, outcome,
                  delivered, progress, resumeCount >>
  /\ UNCHANGED previewVars

\* setTimeout(() => resolve(result), 0)
TimerFires(i) ==
  /\ run = "process"
  /\ i \in 1..Len(ops)
  /\ ops[i].timer = "scheduled"
  /\ ~ResumeDue
  /\ ops' = [ops EXCEPT ![i].timer = "fired"]
  /\ UNCHANGED << columns, page, run, tokErrors, file, hasHeaders, fieldAssignments, pc, skipLine, skipBOM,
                  processedCount, nodeStreamPaused, parserPaused,
                  parserAborted, tokPos, tokCompleted, tokErrored, outcome,
                  delivered, progress, resumeCount >>
  /\ UNCHANGED previewVars

\* whenConsumed.then(onFulfilled, onRejected): both handlers resume
Resume(i) ==
  /\ run = "process"
  /\ i \in 1..Len(ops)
  /\ WhenConsumedSettled(ops[i])
  /\ ~ops[i].resumed
  /\ LET calls == IF HandlerResumes(HandlerOf(ops[i])) THEN 1 ELSE 0
     IN  /\ ops' = [ops EXCEPT ![i].resumed = TRUE, ![i].resumes = @ + calls]
         /\ nodeStreamPaused' = (IF calls > 0 THEN FALSE ELSE nodeStreamPaused)
         /\ parserPaused' = (IF calls > 0 THEN FALSE ELSE parserPaused)
         /\ resumeCount' = resumeCount + calls
  /\ UNCHANGED << columns, page, run, tokErrors, file, hasHeaders, fieldAssignments, pc, skipLine, skipBOM,
                  processedCount, parserAborted, tokPos, tokCompleted,
                  tokErrored, outcome, delivered, progress >>
  /\ UNCHANGED previewVars

\* complete: () => resolve(); the tokenizer signals end-of-input
ProcessComplete ==
  /\ run = "process"
  /\ pc = "running"
  /\ ~tokCompleted
  /\ tokPos = Len(file)
  /\ ~nodeStreamPaused /\ ~parserPaused
  /\ ~ResumeDue
  /\ tokCompleted' = TRUE
  /\ outcome' = Settle(outcome, "resolved", "none")
  /\ UNCHANGED << columns, page, run, tokErrors, file, hasHeaders, fieldAssignments, pc, skipLine, skipBOM,
                  processedCount, nodeStreamPaused, parserPaused,
                  parserAborted, tokPos, tokErrored, ops, delivered,
                  progress, resumeCount >>
  /\ UNCHANGED previewVars

NextProcess ==
  \/ \E throws \in BOOLEAN : ProcessOpen(throws)
  \/ ProcessError
  \/ \E n \in 0..MaxRows, b \in ConsumerBehaviours : ProcessChunk(n, b)
  \/ \E i \in 1..MaxChunks, r \in {"fulfilled", "rejected"} : ConsumerSettles(i, r)
  \/ \E i \in 1..MaxChunks : TimerFires(i)
  \/ \E i \in 1..MaxChunks : Resume(i)
  \/ ProcessComplete

SpecProcess == InitProcess /\ [][NextProcess]_vars

\* processFile on a finite file whose tokenizer keeps emitting while it is not
\* paused, with timers that fire and consumer operations that settle
FairSpecProcess ==
  /\ SpecProcess
  /\ WF_vars(\E throws \in BOOLEAN : ProcessOpen(throws))
  /\ WF_vars(\E n \in 0..MaxRows, b \in ConsumerBehaviours : ProcessChunk(n, b))
  /\ WF_vars(\E i \in 1..MaxChunks, r \in {"fulfilled", "rejected"} :
               ConsumerSettles(i, r))
  /\ WF_vars(\E i \in 1..MaxChunks : TimerFires(i))
  /\ WF_vars(\E i \in 1..MaxChunks : Resume(i))
  /\ WF_vars(ProcessComplete)

\* ----------------------------------------------------------- parsePreview
InitPreview ==
  /\ run = "preview"
  /\ tokErrors = <<>>
  /\ file \in SeqsUpTo(PreviewRowPool, MaxPreviewRows)
  /\ abortCompletes \in BOOLEAN
  /\ hasHeaders = FALSE
  /\ fieldAssignments = [name |-> Unassigned, email |-> Unassigned]
  /\ pc = "init"
  /\ skipLine = FALSE
  /\ skipBOM = FALSE
  /\ processedCount = 0
  /\ nodeStreamPaused = FALSE
  /\ parserPaused = FALSE
  /\ parserAborted = FALSE
  /\ tokPos = 0
  /\ tokCompleted = FALSE
  /\ tokErrored = FALSE
  /\ ops = <<>>
  /\ outcome = Pending
  /\ delivered = <<>>
  /\ progress = <<>>
  /\ resumeCount = 0
  /\ firstChunk = NullChunk
  /\ firstWarning = NoWarning
  /\ rowAccumulator = <<>>
  /\ previewResult = PreviewPending
  /\ columns = <<>>
  /\ page = 0

\* resolve(value) of parsePreview's promise: only the first call counts
PreviewResolve(current, value) ==
  IF current.kind = "pending" THEN value ELSE current

\* the rows of one chunk as pushed on rowAccumulator: skipBOM is set anew for
\* every chunk and cleared by the chunk's first row
PreviewRows(data) ==
  [i \in 1..Len(data) |-> NormalRow(data[i], i = 1)]

PadRows_OneShort(rows) ==
  rows \o [i \in 1..(IF Len(rows) < PREVIEW_ROW_COUNT - 1
                       THEN PREVIEW_ROW_COUNT - 1 - Len(rows) ELSE 0) |-> <<>>]

NextFirstWarning_LastError(current, errors) ==
  IF Len(errors) > 0 /\ current = NoWarning THEN errors[Len(errors)] ELSE current

\* if (errors.length > 0 && !firstWarning) { firstWarning = errors[0] }
NextFirstWarning(current, errors) ==
  IF Len(errors) > 0 /\ current = NoWarning THEN errors[1] ELSE current

\* fill preview with blanks if needed
PadRows(rows) ==
  rows \o [i \in 1..(IF Len(rows) < PREVIEW_ROW_COUNT
                       THEN PREVIEW_ROW_COUNT - Len(rows) ELSE 0) |-> <<>>]

\* reportSuccess() on the state st = [acc, result, warning, chunk]; with no row
\* accumulated it returns a failure object to its caller and resolves nothing
reportSuccess(st) ==
  IF Len(st.acc) = 0
    THEN st
    ELSE [st EXCEPT
            !.acc = PadRows(st.acc),
            !.result =
               PreviewResolve(st.result,
                 [kind |-> "report",
                  parseWarning |-> st.warning,
                  firstChunk |-> IF st.chunk = NullChunk THEN "" ELSE st.chunk,
                  isSingleLine |-> (Len(st.acc) = 1)])]

\* firstRows of the report is the rowAccumulator array itself
PreviewFirstRows == rowAccumulator

\* the promise executor up to Papa.parse; a synchronous throw rejects the
\* promise and .catch turns the rejection into a failure outcome
PreviewOpen(throws) ==
  /\ run = "preview"
  /\ pc = "init"
  /\ IF throws
       THEN /\ pc' = "threw"
            /\ previewResult' =
                 PreviewResolve(previewResult,
                                [kind |-> "failure", parseError |-> "sourceError"])
       ELSE /\ pc' = "running"
            /\ UNCHANGED previewResult
  /\ firstChunk' = NullChunk
  /\ firstWarning' = NoWarning
  /\ rowAccumulator' = <<>>
  /\ UNCHANGED << columns, page, run, tokErrors, file, nodeStreamPaused, parserPaused, parserAborted, tokPos,
                  tokCompleted, tokErrored, abortCompletes >>
  /\ UNCHANGED processVars

\* error: (error) => resolve({ parseError: error, file })
PreviewError ==
  /\ run = "preview"
  /\ pc = "running"
  /\ ~tokErrored
  /\ tokErrored' = TRUE
  /\ previewResult' =
       PreviewResolve(previewResult,
                      [kind |-> "failure", parseError |-> "tokenizerError"])
  /\ UNCHANGED << columns, page, run, tokErrors, file, pc, nodeStreamPaused, parserPaused, parserAborted,
                  tokPos, tokCompleted, firstChunk, firstWarning,
                  rowAccumulator, abortCompletes >>
  /\ UNCHANGED processVars

\* beforeFirstChunk: (chunk) => { firstChunk = chunk }
PreviewBeforeFirstChunk(text) ==
  /\ run = "preview"
  /\ pc = "running"
  /\ firstChunk = NullChunk
  /\ tokPos = 0 /\ ~parserAborted /\ ~tokCompleted
  /\ firstChunk' = text
  /\ UNCHANGED << columns, page, run, tokErrors, file, pc, nodeStreamPaused, parserPaused, parserAborted,
                  tokPos, tokCompleted, tokErrored, firstWarning,
                  rowAccumulator, previewResult, abortCompletes >>
  /\ UNCHANGED processVars

\* chunk: ({ data, errors }, parser) => { ... }; the tokenizer, capped at
\* preview: PREVIEW_ROW_COUNT rows, emits the next n rows
PreviewChunk(n, errors) ==
  /\ run = "preview"
  /\ pc = "running"
  /\ firstChunk # NullChunk
  /\ ~parserAborted /\ ~tokCompleted
  /\ ~nodeStreamPaused
  /\ n <= Min(Len(file), PREVIEW_ROW_COUNT) - tokPos
  /\ LET data == SubSeq(file, tokPos + 1, tokPos + n)
         warning == NextFirstWarning(firstWarning, errors)
         st1 == [acc |-> rowAccumulator \o PreviewRows(data),
                 result |-> previewResult,
                 warning |-> warning,
                 chunk |-> firstChunk]
         st2 == IF abortCompletes THEN reportSuccess(st1) ELSE st1
         st3 == reportSuccess(st2)
     IN  /\ firstWarning' = warning
         /\ rowAccumulator' = st3.acc
         /\ previewResult' = st3.result
  /\ nodeStreamPaused' = nodeStreamPause(nodeStreamPaused)
  /\ parserAborted' = TRUE
  /\ tokPos' = tokPos + n
  /\ tokErrors' = errors
  /\ UNCHANGED << columns, page, run, file, pc, parserPaused, tokCompleted, tokErrored,
                  firstChunk, abortCompletes >>
  /\ UNCHANGED processVars

\* complete: reportSuccess; the tokenizer signals end-of-input
PreviewComplete ==
  /\ run = "preview"
  /\ pc = "running"
  /\ ~parserAborted /\ ~tokCompleted
  /\ tokPos = Len(file)
  /\ tokCompleted' = TRUE
  /\ LET st == reportSuccess([acc |-> rowAccumulator,
                              result |-> previewResult,
                              warning |-> firstWarning,
                              chunk |-> firstChunk])
     IN  /\ rowAccumulator' = st.acc
         /\ previewResult' = st.result
  /\ UNCHANGED << columns, page, run, tokErrors, file, pc, nodeStreamPaused, parserPaused, parserAborted,
                  tokPos, tokErrored, firstChunk, firstWarning,
                  abortCompletes >>
  /\ UNCHANGED processVars

NextPreview ==
  \/ \E throws \in BOOLEAN : PreviewOpen(throws)
  \/ PreviewError
  \/ \E text \in FirstChunkTexts : PreviewBeforeFirstChunk(text)
  \/ \E n \in 0..PREVIEW_ROW_COUNT, errors \in RowErrorPool : PreviewChunk(n, errors)
  \/ PreviewComplete

SpecPreview == InitPreview /\ [][NextPreview]_vars

\* ------------------------------------------------- either operation is run
Init == InitProcess \/ InitPreview

Next == NextProcess \/ NextPreview

Spec == Init /\ [][Next]_vars

\* ---------------------------------------------------- ColumnDragSourceArea
Max(a, b) == IF a > b THEN a ELSE b

\* the columns prop: n columns, in file order
ColumnsOf(n) == [i \in 1..n |-> [index |-> i - 1]]

\* Array.prototype.slice(from, to): a negative index counts from the end,
\* both indices are clamped to the array, an empty range gives []
Slice(s, from, to) ==
  LET len == Len(s)
      k   == IF from < 0 THEN Max(len + from, 0) ELSE Min(from, len)
      fin == IF to < 0 THEN Max(len + to, 0) ELSE Min(to, len)
  IN  [i \in 1..(fin - k) |-> s[k + i]]

\* Math.ceil(columns.length / SOURCES_PAGE_SIZE)
pageCount == (Len(columns) + SOURCES_PAGE_SIZE - 1) \div SOURCES_PAGE_SIZE

start == page * SOURCES_PAGE_SIZE

SourceBox(column) == [kind |-> "SourceBox", column |-> column.index]

pageFiller == [kind |-> "pageFiller"]

\* the slots rendered for the current page: a SourceBox per column of the
\* slice, then fillers while there are fewer than SOURCES_PAGE_SIZE slots
pageContents ==
  LET shown == Slice(columns, start, start + SOURCES_PAGE_SIZE)
  IN  [i \in 1..Max(Len(shown), SOURCES_PAGE_SIZE) |->
         IF i <= Len(shown) THEN SourceBox(shown[i]) ELSE pageFiller]

\* disabled={page === 0}
PreviousDisabled == page = 0

\* disabled={page === pageCount - 1}
NextDisabled == page = pageCount - 1

InitPaging ==
  /\ run = "paging"
  /\ columns \in {ColumnsOf(n) : n \in 0..MaxColumns}
  /\ page = 0
  /\ hasHeaders \in BOOLEAN
  /\ fieldAssignments \in AssignmentPool
  /\ tokErrors = <<>>
  /\ file = <<>>
  /\ pc = "init"
  /\ skipLine = FALSE
  /\ skipBOM = FALSE
  /\ processedCount = 0
  /\ nodeStreamPaused = FALSE
  /\ parserPaused = FALSE
  /\ parserAborted = FALSE
  /\ tokPos = 0
  /\ tokCompleted = FALSE
  /\ tokErrored = FALSE
  /\ ops = <<>>
  /\ outcome = Pending
  /\ delivered = <<>>
  /\ progress = <<>>
  /\ resumeCount = 0
  /\ firstChunk = NullChunk
  /\ firstWarning = NoWarning
  /\ rowAccumulator = <<>>
  /\ previewResult = PreviewPending
  /\ abortCompletes = FALSE

\* 'Show previous columns': setPage((prev) => Math.max(0, prev - 1))
ClickPrevious ==
  /\ run = "paging"
  /\ ~PreviousDisabled
  /\ page' = Max(0, page - 1)
  /\ UNCHANGED << columns, run, tokErrors, file, hasHeaders, fieldAssignments, pc,
                  skipLine, skipBOM, processedCount, nodeStreamPaused,
                  parserPaused, parserAborted, tokPos, tokCompleted, tokErrored,
                  ops, outcome, delivered, progress, resumeCount, firstChunk,
                  firstWarning, rowAccumulator, previewResult, abortCompletes >>

\* 'Show next columns': setPage((prev) => Math.min(pageCount - 1, prev + 1))
ClickNext ==
  /\ run = "paging"
  /\ ~NextDisabled
  /\ page' = Min(pageCount - 1, page + 1)
  /\ UNCHANGED << columns, run, tokErrors, file, hasHeaders, fieldAssignments, pc,
                  skipLine, skipBOM, processedCount, nodeStreamPaused,
                  parserPaused, parserAborted, tokPos, tokCompleted, tokErrored,
                  ops, outcome, delivered, progress, resumeCount, firstChunk,
                  firstWarning, rowAccumulator, previewResult, abortCompletes >>

NextPaging ==
  \/ ClickPrevious
  \/ ClickNext

SpecPaging == InitPaging /\ [][NextPaging]_vars

\* ------------------------------------------------------------------ claims

\* the file's row numbers with the header row removed when hasHeaders
ExpectedSrc ==
  LET drop == IF hasHeaders /\ Len(file) > 0 THEN 1 ELSE 0
  IN  [i \in 1..(Len(file) - drop) |-> i + drop]

\* C1: when a streaming run has resolved, the records handed to the consumer,
\* concatenated in delivery order, are exactly the file's rows in order, without
\* the first row when hasHeaders: each record is the one built from its row and
\* no row is delivered twice, dropped or reordered, however the rows were split
\* into chunks.
C1_AllRowsDeliveredOnce ==
  outcome.state = "resolved" =>
    /\ FlatSrc(delivered, Len(delivered)) = ExpectedSrc
    /\ \A b \in 1..Len(delivered) :
         /\ Len(delivered[b].records) = Len(delivered[b].src)
         /\ \A i \in 1..Len(delivered[b].src) :
              LET r == delivered[b].src[i]
              IN  delivered[b].records[i] =
                    BuildRecord(NormalRow(file[r], ~hasHeaders /\ r = 1),
                                fieldAssignments)

C1_Witness ==
  /\ outcome.state = "resolved"
  /\ hasHeaders
  /\ Len(delivered) >= 2
  /\ \E k \in 1..Len(progress) : progress[k] = 0

\* C2: the startIndex of every consumer invocation is the number of records
\* delivered by all earlier invocations, so it starts at 0 and grows by the
\* previous batch's length, strictly, whatever empty chunks come in between.
C2_StartIndexContiguous ==
  \A i \in 1..Len(delivered) :
    /\ delivered[i].startIndex = SumLen(delivered, i - 1)
    /\ i > 1 => delivered[i].startIndex > delivered[i - 1].startIndex

C2_Witness ==
  /\ Len(delivered) >= 2
  /\ \E i, j, k \in 1..Len(progress) :
       i < j /\ j < k /\ progress[i] > 0 /\ progress[j] = 0 /\ progress[k] > 0

\* C3: while the consumer's operation for a chunk is outstanding, the byte
\* source and the tokenizer are both paused, no later chunk has entered the
\* chunk handler, and no other consumer operation is outstanding.
C3_Backpressure ==
  \A i \in 1..Len(ops) :
    ops[i].consumer = "pending" =>
      /\ nodeStreamPaused /\ parserPaused
      /\ i = Len(ops)
      /\ \A j \in 1..Len(ops) : ops[j].consumer = "pending" => j = i

C3_Witness ==
  \E i \in 2..Len(ops) :
    ops[i].consumer = "pending" /\ ops[i].timer = "fired" /\ ops[i - 1].resumed

\* parsePreview's tokenizer will call no further handler but error
PreviewStopped == pc = "threw" \/ parserAborted \/ tokCompleted

\* C4: once parsePreview's source failed to open or its tokenizer stopped
\* (aborted after a chunk, or completed), the preview has produced an outcome.
C4_PreviewAlwaysSettles == PreviewStopped => previewResult.kind # "pending"

\* C5: when the tokenizer stopped without a fatal error and no row was
\* accumulated, the preview outcome is the failure saying the file is empty.
C5_EmptyFileFails ==
  (pc = "running" /\ (parserAborted \/ tokCompleted) /\ ~tokErrored
     /\ Len(rowAccumulator) = 0)
  => previewResult = [kind |-> "failure", parseError |-> "fileIsEmpty"]

\* C6: a successful PreviewReport holds exactly PREVIEW_ROW_COUNT rows: the
\* rows the tokenizer emitted, in order, then zero-length rows.
C6_PreviewRowCount ==
  previewResult.kind = "report" =>
    /\ Len(PreviewFirstRows) = PREVIEW_ROW_COUNT
    /\ \A i \in 1..PREVIEW_ROW_COUNT :
         PreviewFirstRows[i] =
           IF i <= tokPos THEN NormalRow(file[i], i = 1) ELSE <<>>

C6_Witness ==
  /\ previewResult.kind = "report"
  /\ tokPos >= 2 /\ tokPos < PREVIEW_ROW_COUNT
  /\ Len(file[2]) > 0

\* C7: in a successful PreviewReport isSingleLine tells whether the file has
\* exactly one row.
C7_SingleLineIffOneRow ==
  previewResult.kind = "report" =>
    (previewResult.isSingleLine <=> Len(file) = 1)

\* a delivered record whose row is too short for an assigned field
ShortRowCase(b, i, f) ==
  /\ fieldAssignments[f].assigned
  /\ fieldAssignments[f].index >= Len(file[delivered[b].src[i]])

C9_NoCallbacksAfterFailure ==
  [][(tokErrored /\ outcome.state = "failed")
       => (progress' = progress /\ delivered' = delivered)]_vars

\* C10 as stated: the outcome is signalled once and is either resolved, on
\* end-of-input with no earlier fatal error, or failed with the tokenizer's
\* fatal error; a later complete or error event does not change it.
C10_TerminalOnce ==
  [][/\ outcome.state # "pending" => outcome' = outcome
     /\ outcome'.state = "resolved" => tokCompleted'
     /\ (outcome.state = "pending" /\ outcome'.state = "resolved") => ~tokErrored
     /\ outcome'.state = "failed" =>
          (outcome'.error = "tokenizerError" /\ tokErrored')]_vars

\* C10 as amended: the outcome is signalled once and is either resolved, on
\* end-of-input with no earlier fatal error, or failed with the tokenizer's
\* fatal error, or failed with the error thrown while opening the source; a
\* later complete or error event does not change it.
C10_TerminalOnceOrOpenError ==
  [][/\ outcome.state # "pending" => outcome' = outcome
     /\ outcome'.state = "resolved" => tokCompleted'
     /\ (outcome.state = "pending" /\ outcome'.state = "resolved") => ~tokErrored
     /\ outcome'.state = "failed" =>
          \/ outcome'.error = "tokenizerError" /\ tokErrored'
          \/ outcome'.error = "sourceError" /\ pc' = "threw"]_vars

C10_Witness == outcome.state = "resolved" /\ tokErrored

\* the first cell of row r of the file, as text
RawFirstCell(r) == IF file[r][1].isString THEN file[r][1].chars ELSE <<>>

\* text without one leading U+FEFF
WithoutOneBOM(text) ==
  IF Len(text) > 0 /\ text[1] = BOM_CODE THEN SubSeq(text, 2, Len(text)) ELSE text

\* C11: in the output of processFile and of parsePreview the first cell of the
\* file's first row has lost exactly one leading U+FEFF, and the first cell of
\* every other row is the tokenizer's, also when it starts with U+FEFF, for
\* every chunking and both values of hasHeaders.
C11_BOMStrippedFromFirstRowOnly ==
  /\ run = "process" =>
       \A b \in 1..Len(delivered) : \A i \in 1..Len(delivered[b].records) :
         \A f \in DOMAIN fieldAssignments :
           LET r == delivered[b].src[i]
           IN  (fieldAssignments[f].assigned /\ fieldAssignments[f].index = 0
                  /\ Len(file[r]) > 0)
               => delivered[b].records[i][f] =
                    DefinedValue(IF r = 1 THEN WithoutOneBOM(RawFirstCell(1))
                                 ELSE RawFirstCell(r))
  /\ (run = "preview" /\ previewResult.kind = "report") =>
       \A r \in 1..tokPos :
         Len(file[r]) > 0 =>
           PreviewFirstRows[r][1] =
             (IF r = 1 THEN WithoutOneBOM(RawFirstCell(1)) ELSE RawFirstCell(r))

C11_Witness ==
  /\ run = "process"
  /\ \E f \in DOMAIN fieldAssignments :
       fieldAssignments[f].assigned /\ fieldAssignments[f].index = 0
  /\ \E b \in 1..Len(delivered) : \E i \in 1..Len(delivered[b].src) :
       /\ delivered[b].src[i] = 1
       /\ Len(file[1]) > 0
       /\ WithoutOneBOM(RawFirstCell(1)) # RawFirstCell(1)
  /\ \E b \in 1..Len(delivered) : \E i \in 1..Len(delivered[b].src) :
       LET r == delivered[b].src[i]
       IN  r > 1 /\ Len(file[r]) > 0 /\ WithoutOneBOM(RawFirstCell(r)) # RawFirstCell(r)

\* cell j of row r of the file as text, as the consumer is to see it
ExpectedCell(r, j) ==
  LET text == IF file[r][j].isString THEN file[r][j].chars ELSE <<>>
  IN  IF r = 1 /\ j = 1 THEN WithoutOneBOM(text) ELSE text

\* C12: the keys of every Record are exactly the fields of the assignment map
\* whose column index is defined, and the value of a key is the row's cell at
\* that index; a field with an undefined index is no key, and fields sharing an
\* index both hold that cell.
C12_RecordKeysAndValues ==
  \A b \in 1..Len(delivered) : \A i \in 1..Len(delivered[b].records) :
    LET rec == delivered[b].records[i]
        r == delivered[b].src[i]
    IN  /\ DOMAIN rec = { f \in DOMAIN fieldAssignments : fieldAssignments[f].assigned }
        /\ \A f \in DOMAIN rec :
             fieldAssignments[f].index < Len(file[r]) =>
               rec[f] = DefinedValue(ExpectedCell(r, fieldAssignments[f].index + 1))

C12_Witness ==
  \E b \in 1..Len(delivered) : \E i \in 1..Len(delivered[b].records) :
    \E f, g \in DOMAIN fieldAssignments :
      /\ f # g
      /\ fieldAssignments[f].assigned /\ fieldAssignments[g].assigned
      /\ fieldAssignments[f].index = fieldAssignments[g].index
      /\ fieldAssignments[f].index < Len(file[delivered[b].src[i]])
      /\ delivered[b].records[i][f] = delivered[b].records[i][g]

\* the number of records of the batches whose consumer operation has settled
RECURSIVE SettledRecords(_)
SettledRecords(n) ==
  IF n = 0 THEN 0
  ELSE SettledRecords(n - 1)
       + (IF ops[delivered[n].chunk].consumer # "pending"
            THEN Len(delivered[n].records) ELSE 0)

\* C13: reportProgress is called once per chunk, with the number of records of
\* the chunk's batch, and before the consumer is invoked for that chunk; the
\* reported deltas sum to at least the records whose consumer operation has
\* settled, and to the records delivered once the run has completed.
C13_ProgressBeforeConsumer ==
  /\ Len(progress) = Len(ops)
  /\ \A b \in 1..Len(delivered) :
       /\ delivered[b].chunk \in 1..Len(progress)
       /\ progress[delivered[b].chunk] = Len(delivered[b].records)
       /\ delivered[b].progressSeen >= delivered[b].chunk
  /\ \A k \in 1..Len(progress) :
       (\A b \in 1..Len(delivered) : delivered[b].chunk # k) => progress[k] = 0
  /\ SumSeq(progress, Len(progress)) >= SettledRecords(Len(delivered))
  /\ tokCompleted =>
       SumSeq(progress, Len(progress)) = SumLen(delivered, Len(delivered))

C13_Witness ==
  /\ Len(delivered) >= 2
  /\ ops[delivered[1].chunk].consumer = "fulfilled"
  /\ ops[delivered[2].chunk].consumer = "pending"
  /\ SumSeq(progress, Len(progress)) > SettledRecords(Len(delivered))

\* C14: for every chunk handled the pipeline is resumed exactly once, by the
\* then-handler of whenConsumed and so after the consumer's operation has
\* settled, whether the consumer returned, fulfilled, rejected, threw or was
\* not invoked; when the run has completed every chunk has been resumed.
C14_ResumedOncePerChunk ==
  /\ \A i \in 1..Len(ops) :
       /\ ops[i].resumes = (IF ops[i].resumed THEN 1 ELSE 0)
       /\ ops[i].resumes > 0 =>
            /\ ops[i].consumer # "pending"
            /\ ops[i].consumer = "threw" \/ ops[i].timer = "fired"
  /\ resumeCount = Cardinality({ i \in 1..Len(ops) : ops[i].resumed })
  /\ tokCompleted => \A i \in 1..Len(ops) : ops[i].resumes = 1

C14_Witness ==
  \E i, j, k \in 1..Len(ops) :
    /\ ops[i].consumer = "rejected" /\ ops[i].resumes = 1
    /\ ops[j].consumer = "threw" /\ ops[j].resumes = 1
    /\ ops[k].consumer = "notCalled" /\ ops[k].resumes = 1

\* C15: a fatal error reported before the run has resolved fails the run, and
\* after a fatal error the byte source and the tokenizer are never resumed.
C15_NoResumeAfterError ==
  [][/\ (tokErrored' /\ outcome.state # "resolved") => outcome'.state = "failed"
     /\ tokErrored => resumeCount' = resumeCount]_vars

\* C16: a run on a finite file with no fatal error, whose consumer operations
\* all settle, eventually has every chunk handled and resumed and is resolved,
\* also when consumer operations fail.
C16_RunEventuallyResolves ==
  <>(\/ tokErrored
     \/ pc = "threw"
     \/ /\ outcome.state = "resolved"
        /\ tokPos = Len(file)
        /\ \A i \in 1..Len(ops) : ops[i].resumed)

C16_Witness ==
  /\ outcome.state = "resolved"
  /\ ~tokErrored
  /\ \E i, j \in 1..Len(ops) :
       ops[i].consumer = "rejected" /\ ops[j].consumer = "threw"

\* C17: the consumer is invoked for a chunk exactly when the chunk's batch,
\* after header removal, holds a record, and never with an empty list; for an
\* empty batch progress is reported with 0, processedCount does not move, and
\* the pipeline stays paused until that chunk's resume.
C17_ConsumerOnlyForNonEmptyBatch ==
  /\ \A k \in 1..Len(ops) :
       LET headerHere == /\ hasHeaders
                         /\ ops[k].dataLen > 0
                         /\ \A j \in 1..(k - 1) : ops[j].dataLen = 0
           expected == ops[k].dataLen - (IF headerHere THEN 1 ELSE 0)
           called == \E b \in 1..Len(delivered) : delivered[b].chunk = k
       IN  /\ called <=> expected > 0
           /\ called <=> ops[k].consumer # "notCalled"
           /\ progress[k] = expected
           /\ (~called /\ ~ops[k].resumed) =>
                (k = Len(ops) /\ nodeStreamPaused /\ parserPaused)
  /\ \A b \in 1..Len(delivered) : Len(delivered[b].records) > 0
  /\ processedCount = SumLen(delivered, Len(delivered))

C17_Witness ==
  \E k, m \in 1..Len(ops) :
    /\ ops[k].dataLen = 1 /\ ops[k].consumer = "notCalled" /\ ops[k].resumes = 1
    /\ ops[m].dataLen = 0 /\ ops[m].consumer = "notCalled" /\ ops[m].resumes = 1
    /\ processedCount > 0

\* C18: whenever parsePreview has produced its report, the byte source is
\* paused and the tokenizer aborted, and no row is accumulated afterwards.
C18_StoppedWhenReported ==
  [][/\ previewResult'.kind = "report" => (nodeStreamPaused' /\ parserAborted')
     /\ previewResult.kind = "report" => rowAccumulator' = rowAccumulator]_vars

C18_Witness ==
  /\ previewResult.kind = "report"
  /\ abortCompletes
  /\ tokPos >= 1
  /\ nodeStreamPaused /\ parserAborted

\* C19: row-level errors never fail the preview: after a chunk with rows the
\* outcome is a report unless a fatal error came first; the report holds every
\* row of the chunk and its warning is the first row-level error, or absent
\* when there was none.
C19_WarningDoesNotFail ==
  /\ previewResult.kind = "failure" => (tokErrored \/ pc = "threw")
  /\ (parserAborted /\ tokPos >= 1) => previewResult.kind # "pending"
  /\ previewResult.kind = "report" =>
       /\ previewResult.parseWarning =
            (IF Len(tokErrors) > 0 THEN tokErrors[1] ELSE NoWarning)
       /\ \A r \in 1..tokPos :
            PreviewFirstRows[r] = [j \in 1..Len(file[r]) |-> ExpectedCell(r, j)]

C19_Witness ==
  /\ previewResult.kind = "report"
  /\ Len(tokErrors) >= 2
  /\ tokErrors[1] # tokErrors[Len(tokErrors)]
  /\ tokPos >= 2

\* C20: a run is never resolved while a consumer operation is outstanding:
\* when it is resolved every chunk's consumer operation has settled and the
\* pipeline has been resumed for it.
C20_ResolvedAfterLastConsumer ==
  outcome.state = "resolved" =>
    \A i \in 1..Len(ops) : ops[i].consumer # "pending" /\ ops[i].resumes >= 1

C20_Witness ==
  /\ outcome.state = "resolved"
  /\ Len(ops) >= 2
  /\ ops[Len(ops)].consumer \in {"fulfilled", "rejected"}

\* C21: in ColumnDragSourceArea, after any sequence of 'previous' and 'next'
\* clicks the page index stays within 0 .. max(0, pageCount - 1), for every
\* number of columns including zero, and the rendered page always holds exactly
\* SOURCES_PAGE_SIZE slots, column boxes followed by fillers.
C21_PageInRangeAndFiveSlots ==
  run = "paging" =>
    /\ page \in 0..Max(0, pageCount - 1)
    /\ Len(pageContents) = SOURCES_PAGE_SIZE
    /\ \A i, j \in 1..Len(pageContents) :
         (pageContents[i].kind = "pageFiller" /\ i < j) =>
           pageContents[j].kind = "pageFiller"

====
